---- MODULE Spec2Model ----
(***************************************************************************)
(* Model of the question-answering pipeline of backend/sql_agent.py:       *)
(* get_sql_agent (lazy global singleton), ask_ceo, SQLAgent.__init__,       *)
(* SQLAgent.query and SQLAgent._handle_simple_question, run by concurrent  *)
(* request workers.  Text is modelled as sequences of one-character        *)
(* strings so that lower-casing, substring tests, the regular expression   *)
(* and number formatting are computed, not assumed.                        *)
(***************************************************************************)
EXTENDS Integers, Sequences, FiniteSets, TLC

VARIABLES
    sales,        \* rows of the sales table: <<[date, revenue], ...>>
    _sql_agent,   \* module global _sql_agent: 0 (None) or index into heap
    heap,         \* constructed SQLAgent objects: [sql_db, agent]
    pc,           \* per worker: position inside ask_ceo
    question,     \* per worker: the question being answered
    agent,        \* per worker: local `agent` of ask_ceo (0 = None)
    calls,        \* per worker: tier calls made for the current question
    queries,      \* per worker: store queries issued for the current question
    null_is_nan,  \* the installed driver reads a NULL aggregate as NaN (else None)
    result,       \* per worker: outcome of ask_ceo (returned string or raised)
    ctor_calls,   \* number of SQLAgent() constructor runs so far
    ctor_failed,  \* some SQLAgent() constructor run has raised
    create_calls, \* number of create_sql_agent calls so far
    create_failed,\* some create_sql_agent call has raised
    requests,     \* number of ask_ceo calls started so far
    written,      \* the agent's sql_db has executed a statement other than SELECT
    expired,      \* per worker: the client's timeout for the current question fired
    db,           \* main.py global db: 0 (None) or 1 (a Database)
    analytics,    \* main.py global analytics: 0 (None) or 1 (a KPIAnalytics)
    forecast_engine, \* main.py global forecast_engine: 0 (None) or 1 (a ForecastEngine)
    databases,    \* Database objects built by get_db and ForecastEngine.__init__
    http,         \* status of the last response of /health, /sales, /kpi-analysis
    fetching      \* fetch_dataframe calls of /sales still running on helper threads

\* the module globals of main.py and the last response of its other endpoints
process == <<db, analytics, forecast_engine, databases, http, fetching>>

vars == <<sales, null_is_nan, _sql_agent, heap, pc, question, agent, calls, queries, result,
          ctor_calls, ctor_failed, create_calls, create_failed, requests, written, expired,
          process>>

-----------------------------------------------------------------------------
(* Text: str.lower, the `in` substring test, re.search, int(), formatting. *)

UpperChars == <<"A","B","C","D","E","F","G","H","I","J","K","L","M","N","O","P","Q","R","S","T","U","V","W","X","Y","Z">>

LowerChars == <<"a","b","c","d","e","f","g","h","i","j","k","l","m","n","o","p","q","r","s","t","u","v","w","x","y","z">>

DigitChars == <<"0","1","2","3","4","5","6","7","8","9">>

LowerChar(c) ==
    IF \E i \in 1..Len(UpperChars) : UpperChars[i] = c
    THEN LowerChars[CHOOSE i \in 1..Len(UpperChars) : UpperChars[i] = c]
    ELSE c

\* question.lower()
Lower(s) == [i \in 1..Len(s) |-> LowerChar(s[i])]

\* p in s
Contains(s, p) ==
    \E i \in 1..(Len(s) - Len(p) + 1) : SubSeq(s, i, i + Len(p) - 1) = p

IsDigit(c) == \E d \in 1..Len(DigitChars) : DigitChars[d] = c

DigitValue(c) == (CHOOSE d \in 1..Len(DigitChars) : DigitChars[d] = c) - 1

\* last index of the maximal run of digits that starts at j (j - 1 if none)
RECURSIVE DigitRunEnd(_, _)
DigitRunEnd(s, j) ==
    IF j <= Len(s) /\ IsDigit(s[j]) THEN DigitRunEnd(s, j + 1) ELSE j - 1

\* int(text) of a run of decimal digits
RECURSIVE ParseInt(_)
ParseInt(ds) ==
    IF ds = <<>> THEN 0
    ELSE 10 * ParseInt(SubSeq(ds, 1, Len(ds) - 1)) + DigitValue(ds[Len(ds)])

SLast == <<"l","a","s","t"," ">>
SDay == <<" ","d","a","y">>

\* positions where r"last (\d+) (day|days)" matches: "last ", one or more
\* digits, " day" (the alternative "days" only extends a match of "day")
TrendMatchStarts(s) ==
    {i \in 1..Len(s) :
        /\ i + Len(SLast) - 1 <= Len(s)
        /\ SubSeq(s, i, i + Len(SLast) - 1) = SLast
        /\ DigitRunEnd(s, i + Len(SLast)) >= i + Len(SLast)
        /\ LET e == DigitRunEnd(s, i + Len(SLast))
           IN  /\ e + Len(SDay) <= Len(s)
               /\ SubSeq(s, e + 1, e + Len(SDay)) = SDay}

\* m = re.search(...): truthiness of m
TrendMatch(s) == TrendMatchStarts(s) # {}

\* int(m.group(1)) of the leftmost match
TrendDays(s) ==
    LET i == CHOOSE k \in TrendMatchStarts(s) : \A l \in TrendMatchStarts(s) : k <= l
    IN  ParseInt(SubSeq(s, i + Len(SLast), DigitRunEnd(s, i + Len(SLast))))

\* str(n) of a non-negative int
RECURSIVE Digits(_)
Digits(n) ==
    IF n < 10 THEN <<DigitChars[n + 1]>>
    ELSE Digits(n \div 10) \o <<DigitChars[(n % 10) + 1]>>

\* the "," option of the format mini-language: groups of three digits
RECURSIVE Grouped(_)
Grouped(n) ==
    IF n < 1000 THEN Digits(n)
    ELSE Grouped(n \div 1000) \o <<",">>
         \o <<DigitChars[((n % 1000) \div 100) + 1],
              DigitChars[((n % 100) \div 10) + 1],
              DigitChars[(n % 10) + 1]>>

Abs(n) == IF n < 0 THEN -n ELSE n

\* num/den (den > 0) rounded to hundredths, ties to even, as a count of hundredths
RoundHundredths(num, den) ==
    LET n  == 100 * Abs(num)
        fl == n \div den
        r2 == 2 * (n % den)
    IN  IF r2 > den \/ (r2 = den /\ fl % 2 = 1) THEN fl + 1 ELSE fl

\* variant: two decimals but no thousands separators
FormatMoneyUngrouped(num, den) ==
    LET h == RoundHundredths(num, den)
    IN  (IF num < 0 THEN <<"-">> ELSE <<>>)
        \o Digits(h \div 100) \o <<".">>
        \o <<DigitChars[((h % 100) \div 10) + 1], DigitChars[(h % 10) + 1]>>

\* f"{x:,.2f}" for x = num/den
FormatMoney(num, den) ==
    LET h == RoundHundredths(num, den)
    IN  (IF num < 0 THEN <<"-">> ELSE <<>>)
        \o Grouped(h \div 100) \o <<".">>
        \o <<DigitChars[((h % 100) \div 10) + 1], DigitChars[(h % 10) + 1]>>

-----------------------------------------------------------------------------
(* The sales table and the four queries of _handle_simple_question.        *)

\* SUM(revenue) over rows (the caller handles the NULL of an empty table)
RECURSIVE SumRevenue(_)
SumRevenue(rows) ==
    IF rows = <<>> THEN 0 ELSE rows[1].revenue + SumRevenue(Tail(rows))

SaleDates(rows) == {rows[i].date : i \in 1..Len(rows)}

\* SUM(revenue) ... GROUP BY date, for one date
RECURSIVE DateRevenue(_, _)
DateRevenue(rows, d) ==
    IF rows = <<>> THEN 0
    ELSE (IF rows[1].date = d THEN rows[1].revenue ELSE 0) + DateRevenue(Tail(rows), d)

\* GROUP BY date ORDER BY date DESC LIMIT lim: the lim most recent dates
TrendWindow(rows, lim) ==
    {d \in SaleDates(rows) : Cardinality({e \in SaleDates(rows) : e > d}) < lim}

MinDate(ds) == CHOOSE d \in ds : \A e \in ds : d <= e

MaxDate(ds) == CHOOSE d \in ds : \A e \in ds : e <= d

-----------------------------------------------------------------------------
(* SQLAgent._handle_simple_question                                         *)

STotalRevenue == <<"t","o","t","a","l"," ","r","e","v","e","n","u","e">>

SSumRevenue == <<"s","u","m"," ","r","e","v","e","n","u","e">>

STotalSales == <<"t","o","t","a","l"," ","s","a","l","e","s">>

STotalOrders == <<"t","o","t","a","l"," ","o","r","d","e","r","s">>

SOrders == <<"o","r","d","e","r","s">>

STotal == <<"t","o","t","a","l">>

SNumberOfOrders == <<"n","u","m","b","e","r"," ","o","f"," ","o","r","d","e","r","s">>

SAvgRevenue == <<"a","v","g"," ","r","e","v","e","n","u","e">>

SAverageRevenue == <<"a","v","e","r","a","g","e"," ","r","e","v","e","n","u","e">>

SRevenue == <<"r","e","v","e","n","u","e">>

FTotalRevenue == <<"T","o","t","a","l"," ","r","e","v","e","n","u","e",":"," ">>

FTotalOrders == <<"T","o","t","a","l"," ","o","r","d","e","r","s",":"," ">>

FAverageRevenue == <<"A","v","e","r","a","g","e"," ","r","e","v","e","n","u","e",":"," ">>

FTrendHead == <<"R","e","v","e","n","u","e"," ","t","r","e","n","d"," ","o","v","e","r"," ","l","a","s","t"," ">>

FTrendDays == <<" ","d","a","y","s",":"," ">>

FTrendStart == <<" ","(","s","t","a","r","t"," ">>

FTrendEnd == <<" ","→"," ","e","n","d"," ">>

FTrendClose == <<")">>

SIncreasing == <<"i","n","c","r","e","a","s","i","n","g">>

SDecreasing == <<"d","e","c","r","e","a","s","i","n","g">>

SFlat == <<"f","l","a","t">>

SNan == <<"n","a","n">>

\* message of the RuntimeError raised by Database.fetch_dataframe
ExcQueryFailed == <<"Q","u","e","r","y"," ","f","a","i","l","e","d">>

\* message of the TypeError raised by float(None)
ExcTypeError == <<"f","l","o","a","t","(",")"," ","a","r","g","u","m","e","n","t">>

\* the four predicates over q = question.lower()
IsTotalRevenue(q) ==
    Contains(q, STotalRevenue) \/ Contains(q, SSumRevenue) \/ Contains(q, STotalSales)

IsTotalOrders(q) ==
    \/ Contains(q, STotalOrders)
    \/ (Contains(q, SOrders) /\ Contains(q, STotal))
    \/ Contains(q, SNumberOfOrders)

IsAverageRevenue(q) == Contains(q, SAvgRevenue) \/ Contains(q, SAverageRevenue)

IsRevenueTrend(q) == Contains(q, SRevenue) /\ TrendMatch(q)

\* results of the handler: returned value (or raised exception) and the
\* store queries it issued
SimpleNone(qs) == [some |-> FALSE, raised |-> FALSE, text |-> <<>>, sql |-> qs]

SimpleAnswer(text, qs) == [some |-> TRUE, raised |-> FALSE, text |-> text, sql |-> qs]

SimpleRaise(exc, qs) == [some |-> FALSE, raised |-> TRUE, text |-> exc, sql |-> qs]

\* one db.fetch_dataframe call: the statement and whether it raised
Fetched(sql, fetch_ok) == <<[sql |-> sql, raised |-> ~fetch_ok]>>

\* variant: the rule's except block re-raises instead of returning None
RuleExceptPropagate(exc, qs) == SimpleRaise(exc, qs)

\* `except Exception as e: logger.error(...); return None` of each rule
RuleExcept(exc, qs) == SimpleNone(qs)

\* float(df[col].iloc[0]) of a NULL aggregate (SUM/AVG over no rows still
\* yield one row, so df.empty is false): NaN, or TypeError
NullAggregate(head, nan, qs) ==
    IF nan THEN SimpleAnswer(head \o SNan, qs) ELSE RuleExcept(ExcTypeError, qs)

TotalRevenueRule(rows, fetch_ok, nan) ==
    LET qs == Fetched("SUM", fetch_ok)
    IN  IF ~fetch_ok THEN RuleExcept(ExcQueryFailed, qs)
        ELSE IF rows = <<>> THEN NullAggregate(FTotalRevenue, nan, qs)
        ELSE SimpleAnswer(FTotalRevenue \o FormatMoney(SumRevenue(rows), 1), qs)

TotalOrdersRule(rows, fetch_ok) ==
    LET qs == Fetched("COUNT", fetch_ok)
    IN  IF ~fetch_ok THEN RuleExcept(ExcQueryFailed, qs)
        ELSE SimpleAnswer(FTotalOrders \o Digits(Len(rows)), qs)

AverageRevenueRule(rows, fetch_ok, nan) ==
    LET qs == Fetched("AVG", fetch_ok)
    IN  IF ~fetch_ok THEN RuleExcept(ExcQueryFailed, qs)
        ELSE IF rows = <<>> THEN NullAggregate(FAverageRevenue, nan, qs)
        ELSE SimpleAnswer(FAverageRevenue \o FormatMoney(SumRevenue(rows), Len(rows)), qs)

\* variant: the comparison of start and end reversed
TrendReversed(start, end) ==
    IF end < start THEN SIncreasing ELSE IF end > start THEN SDecreasing ELSE SFlat

Trend(start, end) ==
    IF end > start THEN SIncreasing ELSE IF end < start THEN SDecreasing ELSE SFlat

RevenueTrendRule(rows, days, fetch_ok) ==
    LET qs == Fetched("TREND", fetch_ok)
    IN  IF ~fetch_ok THEN RuleExcept(ExcQueryFailed, qs)
        ELSE LET df == TrendWindow(rows, days)
             IN  IF df = {} THEN SimpleNone(qs)
                 ELSE LET start == DateRevenue(rows, MinDate(df))
                          end   == DateRevenue(rows, MaxDate(df))
                      IN  SimpleAnswer(
                              FTrendHead \o Digits(days) \o FTrendDays \o Trend(start, end)
                              \o FTrendStart \o FormatMoney(start, 1)
                              \o FTrendEnd \o FormatMoney(end, 1) \o FTrendClose,
                              qs)

\* variant: the average-revenue test placed before the total-revenue test
HandleSimpleQuestionAverageFirst(text, rows, fetch_ok, nan) ==
    LET q == Lower(text)
    IN  IF IsAverageRevenue(q) THEN AverageRevenueRule(rows, fetch_ok, nan)
        ELSE IF IsTotalRevenue(q) THEN TotalRevenueRule(rows, fetch_ok, nan)
        ELSE IF IsTotalOrders(q) THEN TotalOrdersRule(rows, fetch_ok)
        ELSE IF IsRevenueTrend(q) THEN RevenueTrendRule(rows, TrendDays(q), fetch_ok)
        ELSE SimpleNone(<<>>)

\* variant: a total-revenue rule that ends in None does not return; the later
\* rules are tried on the same question
HandleSimpleQuestionFallThrough(text, rows, fetch_ok, nan) ==
    LET q == Lower(text)
        rest == IF IsTotalOrders(q) THEN TotalOrdersRule(rows, fetch_ok)
                ELSE IF IsAverageRevenue(q) THEN AverageRevenueRule(rows, fetch_ok, nan)
                ELSE IF IsRevenueTrend(q)
                THEN RevenueTrendRule(rows, TrendDays(q), fetch_ok)
                ELSE SimpleNone(<<>>)
        first == TotalRevenueRule(rows, fetch_ok, nan)
    IN  IF ~IsTotalRevenue(q) THEN rest
        ELSE IF first.some THEN first
        ELSE [rest EXCEPT !.sql = first.sql \o rest.sql]

\* the if-chain: each matching branch returns, so later branches are not reached
HandleSimpleQuestion(text, rows, fetch_ok, nan) ==
    LET q == Lower(text)
    IN  IF IsTotalRevenue(q) THEN TotalRevenueRule(rows, fetch_ok, nan)
        ELSE IF IsTotalOrders(q) THEN TotalOrdersRule(rows, fetch_ok)
        ELSE IF IsAverageRevenue(q) THEN AverageRevenueRule(rows, fetch_ok, nan)
        ELSE IF IsRevenueTrend(q) THEN RevenueTrendRule(rows, TrendDays(q), fetch_ok)
        ELSE SimpleNone(<<>>)

-----------------------------------------------------------------------------
(* Inputs: questions, stores, workers.                                     *)

PTotalRevenueCaps == <<"T","o","t","a","l"," ","R","e","v","e","n","u","e">>

PSubtotal == <<"s","u","b","t","o","t","a","l">>

PLast7Days == <<"l","a","s","t"," ","7"," ","d","a","y","s">>

PLast1Day == <<"l","a","s","t"," ","1"," ","d","a","y">>

PLast0Days == <<"l","a","s","t"," ","0"," ","d","a","y","s">>

PLast2Days == <<"l","a","s","t"," ","2"," ","d","a","y","s">>

PProfit == <<"p","r","o","f","i","t">>

\* words and phrases questions are built from
Phrases ==
    {PTotalRevenueCaps, STotalSales, SOrders, PSubtotal, SNumberOfOrders,
     SAverageRevenue, SAvgRevenue, SRevenue, PLast7Days, PLast2Days, PLast1Day,
     PLast0Days, PProfit}

\* longest question, in phrases
MaxPhrases == 2

RECURSIVE QuestionsOfLength(_)
QuestionsOfLength(n) ==
    IF n = 1 THEN Phrases
    ELSE {a \o <<" ">> \o b : a \in QuestionsOfLength(n - 1), b \in Phrases}

AllQuestions == UNION {QuestionsOfLength(n) : n \in 1..MaxPhrases}

\* the questions asked by the concurrent workers: one per path through the rules
Questions ==
    {PTotalRevenueCaps, SRevenue \o <<" ">> \o PLast7Days, PProfit}

Row(d, r) == [date |-> d, revenue |-> r]

Stores ==
    {<<>>,
     <<Row(1, 100)>>,
     <<Row(1, 100), Row(2, 40), Row(2, 110), Row(3, 1234567)>>,
     <<Row(3, 90), Row(1, 100), Row(2, 100)>>}

\* stores for the rule matcher alone: also equal first and last dates
MatcherStores ==
    Stores \cup {<<Row(1, 100), Row(3, 100), Row(2, 150)>>}

Workers == {"w1", "w2"}

\* ask_ceo calls per run of the process
MaxRequests == 2

-----------------------------------------------------------------------------
(* Outcomes of calls: a returned string or a raised exception.             *)

MsgNoDbNoLlm == <<"D","a","t","a","b","a","s","e"," ","a","c","c","e","s","s"," ","u","n","a","v","a","i","l","a","b","l","e"," ","a","n","d"," ","L","L","M"," ","f","a","l","l","b","a","c","k"," ","f","a","i","l","e","d">>

MsgServiceUnavailable == <<"S","e","r","v","i","c","e"," ","u","n","a","v","a","i","l","a","b","l","e">>

MsgCannotAnswer == <<"S","e","r","v","i","c","e"," ","u","n","a","v","a","i","l","a","b","l","e",":"," ","c","a","n","n","o","t"," ","a","n","s","w","e","r"," ","t","h","e"," ","q","u","e","s","t","i","o","n"," ","a","t"," ","t","h","i","s"," ","t","i","m","e">>

FError == <<"E","r","r","o","r",":"," ">>

\* message of the exception raised by agent.run
ExcAgentRun == <<"p","a","r","s","i","n","g"," ","e","r","r","o","r">>

\* message of the exception raised by llm.invoke
ExcLlm == <<"q","u","o","t","a"," ","e","x","c","e","e","d","e","d">>

\* kind "completion"/"agent": text holds the prompt the model output answers
Returned(kind, text) == [raised |-> FALSE, kind |-> kind, text |-> text]

Raised(exc) == [raised |-> TRUE, kind |-> "exception", text |-> exc]

NoResult == [raised |-> FALSE, kind |-> "none", text |-> <<>>]

Call(op, ok) == [op |-> op, raised |-> ~ok]

\* resp = llm.invoke(question); getattr(resp, "content", str(resp))
LlmInvoke(text, llm_ok) ==
    IF llm_ok THEN Returned("completion", text) ELSE Raised(ExcLlm)

\* variant: the fallback without its try/except
LlmFallbackPropagate(text, llm_ok, msg) == LlmInvoke(text, llm_ok)

\* try: return <llm.invoke ...>  except Exception: return <msg>
LlmFallback(text, llm_ok, msg) ==
    LET r == LlmInvoke(text, llm_ok)
    IN  IF r.raised THEN Returned("fixed", msg) ELSE r

\* self.agent.run(question)
AgentRun(text, run_ok) ==
    IF run_ok THEN Returned("agent", text) ELSE Raised(ExcAgentRun)

\* the kinds of statement the language model may hand to the agent's query tool
AgentStatements == {"SELECT", "DELETE"}

\* the agent's tool runs the generated statement on sql_db, which is opened on
\* the gateway's own db_uri with a table list and no statement filter
SqlDbRun(rows, stmt) == IF stmt = "DELETE" THEN <<>> ELSE rows

\* variant: SQLAgent.query without its outer try/except
QueryExceptPropagate(r) == r

\* outer try/except of SQLAgent.query: return f"Error: {str(e)}"
QueryExcept(r) ==
    IF r.raised THEN Returned("error", FError \o r.text) ELSE r

\* variant: the constructor creates the agent session at once
SQLAgentInitEager(db_ok, schema_ok) ==
    [raised |-> ~db_ok, obj |-> [sql_db |-> schema_ok, agent |-> 1]]

\* SQLAgent(): Database() may raise; a failed SQLDatabase.from_uri is caught
SQLAgentInit(db_ok, schema_ok) ==
    [raised |-> ~db_ok, obj |-> [sql_db |-> schema_ok, agent |-> 0]]

-----------------------------------------------------------------------------
(* Steps of one worker running ask_ceo(question).                          *)

Goto(w, l) == pc' = [pc EXCEPT ![w] = l]

Finish(w, r, cs) ==
    /\ result' = [result EXCEPT ![w] = r]
    /\ calls' = [calls EXCEPT ![w] = calls[w] \o cs]
    /\ Goto(w, "done")

\* ceo_question receives a question and calls ask_ceo
Ask(w, text) ==
    /\ pc[w] = "idle"
    /\ requests < MaxRequests
    /\ requests' = requests + 1
    /\ question' = [question EXCEPT ![w] = text]
    /\ Goto(w, "get_sql_agent")
    /\ UNCHANGED <<process, written, expired,
                   sales, null_is_nan, _sql_agent, heap, agent, calls, queries,
                   result, ctor_calls, ctor_failed, create_calls, create_failed>>

\* variant: a failed construction is remembered and never attempted again
GetSqlAgentCheckCached(w) ==
    /\ pc[w] = "get_sql_agent"
    /\ IF _sql_agent = 0 /\ ~ctor_failed
       THEN Goto(w, "construct") ELSE Goto(w, "return")
    /\ UNCHANGED <<process, written, expired,
                   sales, null_is_nan, _sql_agent, heap, question, agent, calls,
                   queries, result, ctor_calls, ctor_failed, create_calls,
                   create_failed, requests>>

\* get_sql_agent: if _sql_agent is None
GetSqlAgentCheck(w) ==
    /\ pc[w] = "get_sql_agent"
    /\ IF _sql_agent = 0 THEN Goto(w, "construct") ELSE Goto(w, "return")
    /\ UNCHANGED <<process, written, expired,
                   sales, null_is_nan, _sql_agent, heap, question, agent, calls,
                   queries, result, ctor_calls, ctor_failed, create_calls,
                   create_failed, requests>>

\* get_sql_agent: try: _sql_agent = SQLAgent()  except: _sql_agent = None
GetSqlAgentConstruct(w) ==
    /\ pc[w] = "construct"
    /\ \E db_ok \in BOOLEAN, schema_ok \in BOOLEAN :
          LET r == SQLAgentInit(db_ok, schema_ok)
          IN  /\ heap' = IF r.raised THEN heap ELSE Append(heap, r.obj)
              /\ _sql_agent' = IF r.raised THEN 0 ELSE Len(heap) + 1
              /\ ctor_failed' = (ctor_failed \/ r.raised)
    /\ ctor_calls' = ctor_calls + 1
    /\ Goto(w, "return")
    /\ UNCHANGED <<process, written, expired,
                   sales, null_is_nan, question, agent, calls, queries, result,
                   create_calls, create_failed, requests>>

\* get_sql_agent: return _sql_agent;  ask_ceo: agent = get_sql_agent()
GetSqlAgentReturn(w) ==
    /\ pc[w] = "return"
    /\ agent' = [agent EXCEPT ![w] = _sql_agent]
    /\ Goto(w, "ask_ceo")
    /\ UNCHANGED <<process, written, expired,
                   sales, null_is_nan, _sql_agent, heap, question, calls, queries,
                   result, ctor_calls, ctor_failed, create_calls, create_failed,
                   requests>>

\* ask_ceo: if not agent: LLM directly; else agent.query(question)
AskCeo(w) ==
    /\ pc[w] = "ask_ceo"
    /\ IF agent[w] = 0
       THEN \E llm_ok \in BOOLEAN :
               Finish(w, LlmFallback(question[w], llm_ok, MsgCannotAnswer),
                      <<Call("llm.invoke", llm_ok)>>)
       ELSE Goto(w, "query") /\ UNCHANGED <<result, calls>>
    /\ UNCHANGED <<process, written, expired,
                   sales, null_is_nan, _sql_agent, heap, question, agent, queries,
                   ctor_calls, ctor_failed, create_calls, create_failed, requests>>

\* variant: the agent tier is entered before the rule matcher
QueryGroundAgentFirst(w) ==
    /\ pc[w] = "query"
    /\ IF ~heap[agent[w]].sql_db
       THEN \E llm_ok \in BOOLEAN :
               Finish(w, QueryExcept(LlmFallback(question[w], llm_ok, MsgNoDbNoLlm)),
                      <<Call("llm.invoke", llm_ok)>>)
       ELSE Goto(w, "lazy") /\ UNCHANGED <<result, calls>>
    /\ UNCHANGED <<process, written, expired,
                   sales, null_is_nan, _sql_agent, heap, question, agent, queries,
                   ctor_calls, ctor_failed, create_calls, create_failed, requests>>

\* SQLAgent.query: if not self.sql_db: LLM fallback
QueryGround(w) ==
    /\ pc[w] = "query"
    /\ IF ~heap[agent[w]].sql_db
       THEN \E llm_ok \in BOOLEAN :
               Finish(w, QueryExcept(LlmFallback(question[w], llm_ok, MsgNoDbNoLlm)),
                      <<Call("llm.invoke", llm_ok)>>)
       ELSE Goto(w, "rules") /\ UNCHANGED <<result, calls>>
    /\ UNCHANGED <<process, written, expired,
                   sales, null_is_nan, _sql_agent, heap, question, agent, queries,
                   ctor_calls, ctor_failed, create_calls, create_failed, requests>>

\* SQLAgent.query: simple_answer = self._handle_simple_question(question)
QueryRules(w) ==
    /\ pc[w] = "rules"
    /\ \E fetch_ok \in BOOLEAN :
          LET r == HandleSimpleQuestion(question[w], sales, fetch_ok, null_is_nan)
          IN  /\ queries' = [queries EXCEPT ![w] = r.sql]
              /\ IF r.raised
                 THEN Finish(w, QueryExcept(Raised(r.text)), <<Call("rules", FALSE)>>)
                 ELSE IF r.some
                 THEN Finish(w, Returned("rule", r.text), <<Call("rules", TRUE)>>)
                 ELSE /\ calls' = [calls EXCEPT ![w] = calls[w] \o <<Call("rules", TRUE)>>]
                      /\ Goto(w, "lazy")
                      /\ UNCHANGED result
    /\ UNCHANGED <<process, written, expired,
                   sales, null_is_nan, _sql_agent, heap, question, agent,
                   ctor_calls, ctor_failed, create_calls, create_failed, requests>>

\* variant: the agent is created anew for every question that reaches it
QueryLazyAlwaysCreate(w) ==
    /\ pc[w] = "lazy"
    /\ Goto(w, "create")
    /\ UNCHANGED <<process, written, expired,
                   sales, null_is_nan, _sql_agent, heap, question, agent, calls,
                   queries, result, ctor_calls, ctor_failed, create_calls,
                   create_failed, requests>>

\* SQLAgent.query: if not self.agent
QueryLazy(w) ==
    /\ pc[w] = "lazy"
    /\ IF heap[agent[w]].agent = 0 THEN Goto(w, "create") ELSE Goto(w, "run")
    /\ UNCHANGED <<process, written, expired,
                   sales, null_is_nan, _sql_agent, heap, question, agent, calls,
                   queries, result, ctor_calls, ctor_failed, create_calls,
                   create_failed, requests>>

\* variant: the fallback also runs after a successful create_sql_agent, so the
\* call that creates the agent is answered by the plain model
QueryCreateThenFallback(w) ==
    /\ pc[w] = "create"
    /\ create_calls' = create_calls + 1
    /\ \E create_ok \in BOOLEAN, llm_ok \in BOOLEAN :
          /\ create_failed' = (create_failed \/ ~create_ok)
          /\ heap' = IF create_ok
                     THEN [heap EXCEPT ![agent[w]].agent = create_calls + 1]
                     ELSE heap
          /\ Finish(w, QueryExcept(LlmFallback(question[w], llm_ok, MsgServiceUnavailable)),
                    <<Call("create_sql_agent", create_ok), Call("llm.invoke", llm_ok)>>)
    /\ UNCHANGED <<process, written, expired,
                   sales, null_is_nan, _sql_agent, question, agent, queries,
                   ctor_calls, ctor_failed, requests>>

\* SQLAgent.query: self.agent = create_sql_agent(...), LLM fallback if it raises
QueryCreate(w) ==
    /\ pc[w] = "create"
    /\ create_calls' = create_calls + 1
    /\ \E create_ok \in BOOLEAN :
          /\ create_failed' = (create_failed \/ ~create_ok)
          /\ IF create_ok
             THEN /\ heap' = [heap EXCEPT ![agent[w]].agent = create_calls + 1]
                  /\ calls' = [calls EXCEPT ![w] =
                                  calls[w] \o <<Call("create_sql_agent", TRUE)>>]
                  /\ Goto(w, "run")
                  /\ UNCHANGED result
             ELSE /\ heap' = heap
                  /\ \E llm_ok \in BOOLEAN :
                        Finish(w, QueryExcept(LlmFallback(question[w], llm_ok,
                                                          MsgServiceUnavailable)),
                               <<Call("create_sql_agent", FALSE),
                                 Call("llm.invoke", llm_ok)>>)
    /\ UNCHANGED <<process, written, expired,
                   sales, null_is_nan, _sql_agent, question, agent, queries,
                   ctor_calls, ctor_failed, requests>>

\* variant: a failed agent.run sends the question back to the rule matcher
QueryRunRetry(w) ==
    /\ pc[w] = "run"
    /\ \E run_ok \in BOOLEAN :
          IF run_ok
          THEN Finish(w, AgentRun(question[w], run_ok), <<Call("agent.run", run_ok)>>)
          ELSE /\ calls' = [calls EXCEPT ![w] = calls[w] \o <<Call("agent.run", run_ok)>>]
               /\ Goto(w, "rules")
               /\ UNCHANGED result
    /\ \E stmt \in AgentStatements :
          /\ sales' = SqlDbRun(sales, stmt)
          /\ written' = (written \/ stmt # "SELECT")
    /\ UNCHANGED <<process, expired, null_is_nan, _sql_agent, heap, question, agent, queries,
                   ctor_calls, ctor_failed, create_calls, create_failed, requests>>

\* SQLAgent.query: result = self.agent.run(question); return result
QueryRun(w) ==
    /\ pc[w] = "run"
    /\ \E run_ok \in BOOLEAN, stmt \in AgentStatements :
          /\ sales' = SqlDbRun(sales, stmt)
          /\ written' = (written \/ stmt # "SELECT")
          /\ Finish(w, QueryExcept(AgentRun(question[w], run_ok)),
                    <<Call("agent.run", run_ok)>>)
    /\ UNCHANGED <<process, expired, null_is_nan, _sql_agent, heap, question, agent, queries,
                   ctor_calls, ctor_failed, create_calls, create_failed, requests>>

\* ceo_question: return {"response": response}; the request's locals die
Respond(w) ==
    /\ pc[w] = "done"
    /\ Goto(w, "idle")
    /\ question' = [question EXCEPT ![w] = <<>>]
    /\ agent' = [agent EXCEPT ![w] = 0]
    /\ calls' = [calls EXCEPT ![w] = <<>>]
    /\ queries' = [queries EXCEPT ![w] = <<>>]
    /\ result' = [result EXCEPT ![w] = NoResult]
    /\ expired' = [expired EXCEPT ![w] = FALSE]
    /\ UNCHANGED <<process, written,
                   sales, null_is_nan, _sql_agent, heap, ctor_calls, ctor_failed,
                   create_calls, create_failed, requests>>

-----------------------------------------------------------------------------
(* Specifications.                                                         *)

\* main.py 42-44 (db = analytics = forecast_engine = None); nothing written,
\* no request in flight
InitProcess ==
    /\ written = FALSE
    /\ expired = [w \in Workers |-> FALSE]
    /\ db = 0
    /\ analytics = 0
    /\ forecast_engine = 0
    /\ databases = 0
    /\ http = 0
    /\ fetching = 0

Init ==
    /\ sales \in Stores
    /\ null_is_nan \in BOOLEAN
    /\ _sql_agent = 0
    /\ heap = <<>>
    /\ pc = [w \in Workers |-> "idle"]
    /\ question = [w \in Workers |-> <<>>]
    /\ agent = [w \in Workers |-> 0]
    /\ calls = [w \in Workers |-> <<>>]
    /\ queries = [w \in Workers |-> <<>>]
    /\ result = [w \in Workers |-> NoResult]
    /\ ctor_calls = 0
    /\ ctor_failed = FALSE
    /\ create_calls = 0
    /\ create_failed = FALSE
    /\ requests = 0
    /\ InitProcess

Next ==
    \E w \in Workers :
        \/ \E text \in Questions : Ask(w, text)
        \/ GetSqlAgentCheck(w)
        \/ GetSqlAgentConstruct(w)
        \/ GetSqlAgentReturn(w)
        \/ AskCeo(w)
        \/ QueryGround(w)
        \/ QueryRules(w)
        \/ QueryLazy(w)
        \/ QueryCreate(w)
        \/ QueryRun(w)
        \/ Respond(w)

\* concurrent workers answering questions
Spec == Init /\ [][Next]_vars

\* get_db: build the Database on first use; a failed build leaves None
GetDb(db_ok) == IF db = 0 /\ db_ok THEN 1 ELSE db

\* get_analytics: build the KPIAnalytics on first use
GetAnalytics(analytics_ok) == IF analytics = 0 /\ analytics_ok THEN 1 ELSE analytics

\* get_forecast_engine: ForecastEngine() builds a Database of its own and
\* raises when that build raises
GetForecastEngine(db_ok) == IF forecast_engine = 0 /\ db_ok THEN 1 ELSE forecast_engine

\* number of objects a lazy getter builds: one when the global was None and
\* the constructor returned
Built(global, ok) == IF global = 0 /\ ok THEN 1 ELSE 0

\* GET /health: get_db(), test_connection(); always answers 200
HealthCheck ==
    /\ \E db_ok \in BOOLEAN :
          /\ db' = GetDb(db_ok)
          /\ databases' = databases + Built(db, db_ok)
    /\ http' = 200
    /\ UNCHANGED <<analytics, forecast_engine, fetching, written, expired,
                   sales, null_is_nan, _sql_agent, heap, pc, question, agent, calls,
                   queries, result, ctor_calls, ctor_failed, create_calls,
                   create_failed, requests>>

\* helper-thread fetches that may be left running at the same time
MaxSlowFetches == 2

\* future.cancel() after future.result(timeout=8) timed out: only a call that
\* has not started can be cancelled; a running fetch_dataframe is left alone
\* and executor.shutdown(wait=False) does not wait for it. The result is the
\* number of fetches of this request that go on running.
FutureCancel(started) == IF started THEN 1 ELSE 0

\* GET /sales: get_db(), then fetch_dataframe on a helper thread awaited for 8 s
GetSales ==
    /\ \E db_ok \in BOOLEAN, fetch \in {"rows", "timeout", "error"}, started \in BOOLEAN :
          /\ db' = GetDb(db_ok)
          /\ databases' = databases + Built(db, db_ok)
          /\ IF GetDb(db_ok) = 0
             THEN http' = 503 /\ fetching' = fetching
             ELSE IF fetch = "timeout"
             THEN /\ fetching + FutureCancel(started) <= MaxSlowFetches
                  /\ http' = 504
                  /\ fetching' = fetching + FutureCancel(started)
             ELSE /\ http' = IF fetch = "error" THEN 500 ELSE 200
                  /\ fetching' = fetching
    /\ UNCHANGED <<analytics, forecast_engine, written, expired,
                   sales, null_is_nan, _sql_agent, heap, pc, question, agent, calls,
                   queries, result, ctor_calls, ctor_failed, create_calls,
                   create_failed, requests>>

\* a fetch_dataframe call left running by /sales returns (or raises) on its
\* helper thread and gives its connection back
FetchReturns ==
    /\ fetching > 0
    /\ fetching' = fetching - 1
    /\ UNCHANGED <<db, analytics, forecast_engine, databases, http, written, expired,
                   sales, null_is_nan, _sql_agent, heap, pc, question, agent, calls,
                   queries, result, ctor_calls, ctor_failed, create_calls,
                   create_failed, requests>>

\* GET /kpi-analysis: the three lazy getters, then fetch, summarize, forecast
\* and recommend, any of which may raise
KpiAnalysis ==
    /\ \E db_ok \in BOOLEAN, analytics_ok \in BOOLEAN, run_ok \in BOOLEAN :
          /\ db' = GetDb(db_ok)
          /\ analytics' = GetAnalytics(analytics_ok)
          /\ forecast_engine' = GetForecastEngine(db_ok)
          /\ databases' = databases + Built(db, db_ok) + Built(forecast_engine, db_ok)
          /\ http' = IF GetDb(db_ok) = 0 \/ GetAnalytics(analytics_ok) = 0
                        \/ GetForecastEngine(db_ok) = 0
                     THEN 503
                     ELSE IF run_ok THEN 200 ELSE 500
    /\ UNCHANGED <<fetching, written, expired,
                   sales, null_is_nan, _sql_agent, heap, pc, question, agent, calls,
                   queries, result, ctor_calls, ctor_failed, create_calls,
                   create_failed, requests>>

\* positions of ask_ceo at which the question is still being worked on
InFlight == {"get_sql_agent", "construct", "return", "ask_ceo", "query", "rules",
             "lazy", "create", "run"}

\* the dashboard's requests.post(..., timeout=API_TIMEOUT) gives up on the
\* question; ceo_question and ask_ceo hold no deadline and are not told
DeadlineExpires(w) ==
    /\ pc[w] \in InFlight
    /\ ~expired[w]
    /\ expired' = [expired EXCEPT ![w] = TRUE]
    /\ UNCHANGED <<process, written,
                   sales, null_is_nan, _sql_agent, heap, pc, question, agent, calls,
                   queries, result, ctor_calls, ctor_failed, create_calls,
                   create_failed, requests>>

NextProcess ==
    \/ \E text \in Questions : Ask("w1", text)
    \/ GetSqlAgentCheck("w1")
    \/ GetSqlAgentConstruct("w1")
    \/ GetSqlAgentReturn("w1")
    \/ AskCeo("w1")
    \/ QueryGround("w1")
    \/ QueryRules("w1")
    \/ QueryLazy("w1")
    \/ QueryCreate("w1")
    \/ QueryRun("w1")
    \/ Respond("w1")
    \/ DeadlineExpires("w1")
    \/ HealthCheck
    \/ GetSales
    \/ FetchReturns
    \/ KpiAnalysis

\* one process serving all its endpoints, one request at a time, to a client
\* that enforces a timeout on its question
SpecProcess == Init /\ [][NextProcess]_vars

\* the rule matcher alone: a grounded singleton exists and one worker is about
\* to evaluate _handle_simple_question on an arbitrary question
InitMatcher ==
    /\ sales \in MatcherStores
    /\ null_is_nan \in BOOLEAN
    /\ _sql_agent = 1
    /\ heap = <<[sql_db |-> TRUE, agent |-> 0]>>
    /\ pc = [w \in Workers |-> IF w = "w1" THEN "rules" ELSE "idle"]
    /\ \E text \in AllQuestions :
          question = [w \in Workers |-> IF w = "w1" THEN text ELSE <<>>]
    /\ agent = [w \in Workers |-> IF w = "w1" THEN 1 ELSE 0]
    /\ calls = [w \in Workers |-> <<>>]
    /\ queries = [w \in Workers |-> <<>>]
    /\ result = [w \in Workers |-> NoResult]
    /\ ctor_calls = 1
    /\ ctor_failed = FALSE
    /\ create_calls = 0
    /\ create_failed = FALSE
    /\ requests = 1
    /\ InitProcess

NextMatcher == QueryRules("w1")

SpecMatcher == InitMatcher /\ [][NextMatcher]_vars

-----------------------------------------------------------------------------
(* Properties.                                                             *)

Ops(w) == {calls[w][i].op : i \in 1..Len(calls[w])}

HasCall(w, op, ok) == \E i \in 1..Len(calls[w]) : calls[w][i] = Call(op, ok)

StartsWith(s, p) == Len(s) >= Len(p) /\ SubSeq(s, 1, Len(p)) = p

\* C1: ask_ceo returns a string and never raises, whatever combination of its
\* collaborators fails (Database(), schema introspection, fetch_dataframe,
\* create_sql_agent, agent.run, llm.invoke).
AskCeoNeverRaises ==
    \A w \in Workers :
        /\ ~result[w].raised
        /\ pc[w] = "done" => result[w].kind \in {"rule", "agent", "completion", "fixed", "error"}

\* a question whose store query raised and whose agent run raised has been answered
AskCeoNeverRaisesWitness ==
    \E w \in Workers :
        /\ pc[w] = "done"
        /\ queries[w] # <<>> /\ queries[w][1].raised
        /\ HasCall(w, "agent.run", FALSE)

AgentTierFailed(w) ==
    HasCall(w, "create_sql_agent", FALSE) \/ HasCall(w, "agent.run", FALSE)

\* C2: whenever the agent tier fails (create_sql_agent raises or agent.run
\* raises), the question goes to llm.invoke and the answer is that completion
\* or the fallback's unavailable string, never the agent's error.
AgentFailureFallsBack ==
    \A w \in Workers :
        (pc[w] = "done" /\ AgentTierFailed(w)) =>
            /\ "llm.invoke" \in Ops(w)
            /\ result[w].kind \in {"completion", "fixed"}
            /\ result[w].kind = "completion" => result[w].text = question[w]
            /\ ~Contains(result[w].text, ExcAgentRun)

\* C3 as stated: in every state of the singletons the rule matcher is the
\* first tier call made for a question.
RulesAlwaysFirst ==
    \A w \in Workers : calls[w] # <<>> => calls[w][1].op = "rules"

Grounded(w) == agent[w] # 0 /\ heap[agent[w]].sql_db

\* C3 amended: when the SQLAgent singleton exists and has schema grounding, the
\* rule matcher is evaluated before any agent or language-model call, and a
\* rule answer is given with no such call at all; when the singleton is missing
\* or ungrounded, llm.invoke is the only call and the matcher is not evaluated.
RulesFirstWhenGrounded ==
    \A w \in Workers :
        /\ (calls[w] # <<>> /\ Grounded(w)) => calls[w][1].op = "rules"
        /\ result[w].kind = "rule" => calls[w] = <<Call("rules", TRUE)>>
        /\ (calls[w] # <<>> /\ ~Grounded(w)) => Ops(w) = {"llm.invoke"}

RulesFirstWhenGroundedWitness ==
    \E w \in Workers :
        /\ pc[w] = "done" /\ result[w].kind = "rule"
        /\ \E v \in Workers : pc[v] = "done" /\ ~Grounded(v) /\ Ops(v) = {"llm.invoke"}

\* the statement the first matching rule issues, in the declared order
FirstRuleSql(q) ==
    IF IsTotalRevenue(q) THEN "SUM"
    ELSE IF IsTotalOrders(q) THEN "COUNT"
    ELSE IF IsAverageRevenue(q) THEN "AVG"
    ELSE IF IsRevenueTrend(q) THEN "TREND"
    ELSE "none"

AnswerHead(sql) ==
    IF sql = "SUM" THEN FTotalRevenue
    ELSE IF sql = "COUNT" THEN FTotalOrders
    ELSE IF sql = "AVG" THEN FAverageRevenue
    ELSE FTrendHead

\* C4: the rule matcher applies exactly one intent variant or none, in the
\* order TotalRevenue, TotalOrders, AverageRevenue, RevenueTrend: a question
\* satisfying several predicates is resolved by the earliest rule only.
FirstMatchingRuleWins ==
    \A w \in Workers :
        "rules" \in Ops(w) =>
            LET sql == FirstRuleSql(Lower(question[w]))
            IN  /\ Len(queries[w]) <= 1
                /\ sql = "none" <=> queries[w] = <<>>
                /\ queries[w] # <<>> => queries[w][1].sql = sql
                /\ result[w].kind = "rule" => StartsWith(result[w].text, AnswerHead(sql))

\* a question with both "total revenue" and "average revenue" answered by rule 1
FirstMatchingRuleWinsWitness ==
    \E w \in Workers :
        /\ IsTotalRevenue(Lower(question[w])) /\ IsAverageRevenue(Lower(question[w]))
        /\ result[w].kind = "rule"
        /\ StartsWith(result[w].text, FTotalRevenue)

\* C5: if the matched rule's store query throws, _handle_simple_question
\* returns None instead of raising and SQLAgent.query goes on to the agent tier
\* for the same question; the DB error is never the answer.
RuleDbErrorFallsThrough ==
    \A w \in Workers :
        (queries[w] # <<>> /\ queries[w][1].raised) =>
            /\ calls[w][1] = Call("rules", TRUE)
            /\ pc[w] \in {"lazy", "create", "run", "done"}
            /\ ~result[w].raised
            /\ result[w].kind # "rule"
            /\ ~Contains(result[w].text, ExcQueryFailed)
            /\ pc[w] = "done" => Ops(w) \cap {"create_sql_agent", "agent.run"} # {}

RuleDbErrorFallsThroughWitness ==
    \E w \in Workers :
        /\ pc[w] = "done"
        /\ queries[w] # <<>> /\ queries[w][1].raised
        /\ result[w] = Returned("agent", question[w])

SingletonConstructedOnce ==
    /\ Len(heap) <= 1
    /\ \A v, w \in Workers : (agent[v] # 0 /\ agent[w] # 0) => agent[v] = agent[w]

UnavailableStrings == {MsgCannotAnswer, MsgNoDbNoLlm, MsgServiceUnavailable}

\* C8: every string ask_ceo returns is a usable answer (rule answer, agent
\* answer, model completion) or a fixed terminal failure string, and never
\* contains the text of an internal exception.
NoInternalExceptionInAnswer ==
    \A w \in Workers :
        pc[w] = "done" =>
            /\ \/ result[w].kind \in {"rule", "agent", "completion"}
               \/ result[w].kind = "fixed" /\ result[w].text \in UnavailableStrings
            /\ \A exc \in {ExcAgentRun, ExcLlm, ExcQueryFailed, ExcTypeError} :
                  ~Contains(result[w].text, exc)

FallbackFailed(w) == pc[w] = "done" /\ HasCall(w, "llm.invoke", FALSE)

TierOf(op) ==
    IF op = "rules" THEN 1
    ELSE IF op \in {"create_sql_agent", "agent.run"} THEN 2
    ELSE 3

\* C10: within one ask_ceo call the tiers are visited in the order rules,
\* agent, fallback with no step back, and each is attempted at most once: at
\* most one rule-matcher evaluation, one agent.run and one llm.invoke.
TiersInOrderOnce ==
    \A w \in Workers :
        /\ \A i, j \in 1..Len(calls[w]) :
              i < j => /\ TierOf(calls[w][i].op) <= TierOf(calls[w][j].op)
                       /\ calls[w][i].op # calls[w][j].op
        /\ Len(queries[w]) > 0 => "rules" \in Ops(w)

\* a question that went through all three tiers
TiersInOrderOnceWitness ==
    \E w \in Workers :
        /\ pc[w] = "done"
        /\ [i \in 1..Len(calls[w]) |-> calls[w][i].op]
               = <<"rules", "create_sql_agent", "llm.invoke">>

\* the worker's question has been through _handle_simple_question and the
\* store query of its rule returned normally
RuleQueried(w, sql) ==
    /\ "rules" \in Ops(w)
    /\ FirstRuleSql(Lower(question[w])) = sql
    /\ queries[w] # <<>> /\ ~queries[w][1].raised

\* C11: for a revenue-trend question (rule 4), a window query that returns
\* zero rows or exactly one row makes the rule matcher return None rather than
\* a trend answer.
TrendNoneOnShortWindow ==
    \A w \in Workers :
        (/\ RuleQueried(w, "TREND")
         /\ Cardinality(TrendWindow(sales, TrendDays(Lower(question[w])))) <= 1)
            => /\ result[w].kind # "rule"
               /\ pc[w] = "lazy"

ZeroText == <<"0", ".", "0", "0">>

\* C12: when the sales table has zero rows the aggregate rules answer with a
\* zero value ("Total revenue: 0.00", "Total orders: 0", "Average revenue:
\* 0.00"); the NULL of SUM/AVG over no rows never gives a NaN answer or a
\* fall-through to another tier.
ZeroRowsAggregatesZero ==
    \A w \in Workers :
        sales = <<>> =>
            /\ RuleQueried(w, "SUM") => result[w] = Returned("rule", FTotalRevenue \o ZeroText)
            /\ RuleQueried(w, "COUNT") => result[w] = Returned("rule", FTotalOrders \o <<"0">>)
            /\ RuleQueried(w, "AVG") => result[w] = Returned("rule", FAverageRevenue \o ZeroText)

\* text is the decimal numeral of h hundredths (h >= 0) with exactly two
\* decimals and a "," before every group of three integer digits
MoneyText(text, h) ==
    LET n == Len(text)
    IN  /\ n >= 4
        /\ text[n - 2] = "."
        /\ \A i \in 1..n :
              IF i = n - 2 THEN TRUE
              ELSE IF i < n - 2 /\ (n - 2 - i) % 4 = 0 THEN text[i] = ","
              ELSE IsDigit(text[i])
        /\ text[1] # ","
        /\ (text[1] = "0" => n = 4)
        /\ ParseInt(SelectSeq(text, IsDigit)) = h

TotalRevenueAnswer(w) ==
    /\ ~result[w].raised
    /\ result[w].kind = "rule"
    /\ StartsWith(result[w].text, FTotalRevenue)
    /\ MoneyText(SubSeq(result[w].text, Len(FTotalRevenue) + 1, Len(result[w].text)),
                 100 * SumRevenue(sales))

\* C13 as stated: for every question containing "total revenue", "sum revenue"
\* or "total sales" and a reachable store whose rows sum to V, ask_ceo returns
\* exactly "Total revenue: " and V with thousands separators and two decimals,
\* whatever the state of the agent/schema singletons.
TotalRevenueAnswerAlways ==
    \A w \in Workers :
        (/\ pc[w] = "done"
         /\ IsTotalRevenue(Lower(question[w]))
         /\ sales # <<>>
         /\ \A i \in 1..Len(queries[w]) : ~queries[w][i].raised)
            => TotalRevenueAnswer(w)

\* C13 amended: for every question containing "total revenue", "sum revenue"
\* or "total sales" and a store with at least one row whose revenues sum to V,
\* ask_ceo returns exactly "Total revenue: " and V with thousands separators
\* and two decimals whenever the SQLAgent singleton exists with schema
\* grounding and the SUM query succeeds; with the singleton missing or
\* ungrounded the question is answered by the language-model fallback.
TotalRevenueAnswerWhenGrounded ==
    \A w \in Workers :
        (/\ pc[w] = "done"
         /\ IsTotalRevenue(Lower(question[w]))
         /\ sales # <<>>)
            => /\ (Grounded(w) /\ queries[w] # <<>> /\ ~queries[w][1].raised)
                      => TotalRevenueAnswer(w)
               /\ ~Grounded(w) => /\ Ops(w) = {"llm.invoke"}
                                  /\ result[w].kind \in {"completion", "fixed"}

\* a total above 999,999 answered by the rule while the agent session exists
TotalRevenueAnswerWhenGroundedWitness ==
    \E w \in Workers :
        /\ pc[w] = "done"
        /\ IsTotalRevenue(Lower(question[w]))
        /\ SumRevenue(sales) > 999999
        /\ agent[w] # 0
        /\ heap[agent[w]].agent # 0
        /\ TotalRevenueAnswer(w)

\* the distinct dates of the table, most recent first
RECURSIVE DatesDescending(_)
DatesDescending(ds) ==
    IF ds = {} THEN <<>>
    ELSE LET m == CHOOSE d \in ds : \A e \in ds : e <= d
         IN  <<m>> \o DatesDescending(ds \ {m})

RECURSIVE RevenueOfRows(_)
RevenueOfRows(is) ==
    IF is = {} THEN 0
    ELSE LET i == CHOOSE k \in is : TRUE
         IN  sales[i].revenue + RevenueOfRows(is \ {i})

RevenueOnDate(d) == RevenueOfRows({i \in 1..Len(sales) : sales[i].date = d})

\* the n most recent dates, most recent first
RecentDates(n) ==
    LET all == DatesDescending({sales[i].date : i \in 1..Len(sales)})
    IN  SubSeq(all, 1, IF n < Len(all) THEN n ELSE Len(all))

TrendWord(start, end) ==
    IF end > start THEN SIncreasing
    ELSE IF end < start THEN SDecreasing
    ELSE SFlat

\* the answer reports n, the trend of the earliest against the latest of the n
\* most recent dates, and their two revenues
TrendAnswer(w, n) ==
    LET recent == RecentDates(n)
        start  == RevenueOnDate(recent[Len(recent)])
        end    == RevenueOnDate(recent[1])
        text   == result[w].text
        head   == FTrendHead \o Digits(n) \o FTrendDays \o TrendWord(start, end)
                  \o FTrendStart
        rest   == SubSeq(text, Len(head) + 1, Len(text))
    IN  /\ result[w].kind = "rule"
        /\ StartsWith(text, head)
        /\ ParseInt(Digits(n)) = n
        /\ \E k \in 1..Len(rest) :
              /\ MoneyText(SubSeq(rest, 1, k), 100 * start)
              /\ k + Len(FTrendEnd) + Len(FTrendClose) < Len(rest)
              /\ SubSeq(rest, k + 1, k + Len(FTrendEnd)) = FTrendEnd
              /\ MoneyText(SubSeq(rest, k + Len(FTrendEnd) + 1, Len(rest) - Len(FTrendClose)),
                           100 * end)
              /\ SubSeq(rest, Len(rest) - Len(FTrendClose) + 1, Len(rest)) = FTrendClose

\* the window query of a "revenue ... last N days" question returned rows
TrendWindowFetched(w) ==
    /\ "rules" \in Ops(w)
    /\ IsRevenueTrend(Lower(question[w]))
    /\ queries[w] # <<>> /\ ~queries[w][1].raised
    /\ RecentDates(TrendDays(Lower(question[w]))) # <<>>

\* C14 as stated: for a question containing "revenue" and "last N day(s)" the
\* rule matcher classifies the trend of the N most recent dates, earliest against
\* latest, and the answer reports N, that trend, start and end.
TrendAnswerForEveryTrendQuestion ==
    \A w \in Workers :
        TrendWindowFetched(w) => TrendAnswer(w, TrendDays(Lower(question[w])))

\* C14 amended: for a question containing "revenue" and "last N day(s)" that
\* matches none of the earlier rules (total revenue, total orders, average
\* revenue), when the window query succeeds and returns at least one row, the
\* rule matcher takes the per-date sums of the N most recent dates and compares
\* the earliest (start) with the latest (end): "increasing" iff end > start,
\* "decreasing" iff end < start, "flat" iff equal; the answer reports N, that
\* trend, start and end.  A question that also matches an earlier rule gets
\* that rule's answer instead.
TrendAnswerForRuleFour ==
    \A w \in Workers :
        TrendWindowFetched(w) =>
            IF FirstRuleSql(Lower(question[w])) = "TREND"
            THEN TrendAnswer(w, TrendDays(Lower(question[w])))
            ELSE /\ queries[w][1].sql = FirstRuleSql(Lower(question[w]))
                 /\ ~StartsWith(result[w].text, FTrendHead)

TrendDecreasingText == <<"R","e","v","e","n","u","e"," ","t","r","e","n","d"," ","o","v","e","r"," ","l","a","s","t"," ","2"," ","d","a","y","s",":"," ","d","e","c","r","e","a","s","i","n","g"," ","(","s","t","a","r","t"," ","1","5","0",".","0","0"," ","→"," ","e","n","d"," ","1","0","0",".","0","0",")">>

\* the two most recent of three dates compared, not the first and the last of all
TrendAnswerForRuleFourWitness ==
    \E w \in Workers :
        /\ TrendWindowFetched(w)
        /\ Len(RecentDates(7)) = 3
        /\ RevenueOnDate(RecentDates(7)[3]) = RevenueOnDate(RecentDates(7)[1])
        /\ result[w] = Returned("rule", TrendDecreasingText)

\* the collaborators behaved the same way for both workers' questions: the same
\* outcome of Database(), of schema introspection, of create_sql_agent (a call
\* that saw it raise goes with no session created by a successful one), and of
\* every call and store query that both of them made
SameCollaborators(v, w) ==
    /\ (agent[v] = 0) = (agent[w] = 0)
    /\ (agent[v] # 0 /\ agent[w] # 0) => heap[agent[v]].sql_db = heap[agent[w]].sql_db
    /\ \A x, y \in {v, w} :
          (HasCall(x, "create_sql_agent", FALSE) /\ agent[y] # 0)
              => heap[agent[y]].agent = 0
    /\ \A i \in 1..Len(calls[v]), j \in 1..Len(calls[w]) :
          calls[v][i].op = calls[w][j].op => calls[v][i].raised = calls[w][j].raised
    /\ \A i \in 1..Len(queries[v]), j \in 1..Len(queries[w]) :
          queries[v][i].sql = queries[w][j].sql => queries[v][i].raised = queries[w][j].raised

\* C15: the same question asked twice against an unchanged store (nothing was
\* written to it) and deterministic collaborators gets the same answer both
\* times; the lazily created state the first call leaves behind (_sql_agent,
\* sql_db, agent) does not change what is returned.
SameQuestionSameAnswer ==
    \A v, w \in Workers :
        (/\ pc[v] = "done" /\ pc[w] = "done"
         /\ question[v] = question[w]
         /\ ~written
         /\ SameCollaborators(v, w))
            => result[v] = result[w]

\* the second call reused the agent session the first call created
SameQuestionSameAnswerWitness ==
    \E v, w \in Workers :
        /\ pc[v] = "done" /\ pc[w] = "done"
        /\ question[v] = question[w]
        /\ ~written
        /\ SameCollaborators(v, w)
        /\ HasCall(v, "create_sql_agent", TRUE)
        /\ "create_sql_agent" \notin Ops(w)
        /\ result[w] = Returned("agent", question[w])

\* C16: no path through ask_ceo modifies the store: the rule tier only reads
\* and the agent tier is restricted to reads, so store contents are unchanged
\* by any question.
StoreUnchangedByQuestions == [][sales' = sales]_vars

\* Database objects built so far: one per SQLAgent (sql_agent.py 19), plus
\* those of get_db and ForecastEngine
DatabaseInstances == Len(heap) + databases

\* agent sessions created so far
AgentSessions == Cardinality({heap[i].agent : i \in 1..Len(heap)} \ {0})

\* C17: after any sequence of requests in one process at most one Database and
\* at most one agent session have been created, and a finished request leaves
\* nothing behind but the singletons.
OneDatabaseOneSession ==
    /\ DatabaseInstances <= 1
    /\ AgentSessions <= 1
    /\ \A w \in Workers :
          pc[w] = "idle" =>
              /\ question[w] = <<>> /\ calls[w] = <<>> /\ queries[w] = <<>>
              /\ agent[w] = 0 /\ result[w] = NoResult

\* C18: when the deadline expired while the question was in flight, the caller
\* gets a timeout error (a raised outcome), not a normal answer from this or a
\* later tier.
DeadlineStopsPipeline ==
    \A w \in Workers :
        (pc[w] = "done" /\ expired[w]) => result[w].raised

\* schema grounding failed in the first SQLAgent that was constructed
FirstGroundingFailed == Len(heap) >= 1 /\ ~heap[1].sql_db

\* C19: once schema grounding failed at the first construction of the
\* singleton, no call reaches the rule matcher or the agent any more; every
\* question is left to the language-model fallback.
TiersStayDisabled ==
    FirstGroundingFailed =>
        \A w \in Workers : pc[w] \notin {"rules", "lazy", "create", "run"}

\* C20: the agent session is created lazily: not at process start, not by the
\* SQLAgent constructor and not for a question the rule matcher answered;
\* create_sql_agent runs only in a call that has schema grounding and whose
\* rule matcher returned None, and sessions appear in no other step.
LazyAgentSession ==
    /\ create_calls = 0
    /\ [][/\ \A i \in 1..Len(heap') : i > Len(heap) => heap'[i].agent = 0
          /\ \A i \in 1..Len(heap) :
                heap'[i].agent # heap[i].agent => create_calls' # create_calls
          /\ create_calls' # create_calls =>
                \E w \in Workers :
                    /\ pc[w] = "create" /\ pc'[w] # "create"
                    /\ Grounded(w)
                    /\ calls[w] = <<Call("rules", TRUE)>>
                    /\ result[w] = NoResult]_vars

\* one question was answered by a rule and left no session behind; the only
\* create_sql_agent call is that of another question, which no rule answered
LazyAgentSessionWitness ==
    \E v, w \in Workers :
        /\ pc[v] = "done" /\ result[v].kind = "rule"
        /\ "create_sql_agent" \notin Ops(v)
        /\ HasCall(w, "create_sql_agent", TRUE)
        /\ create_calls = 1
        /\ heap[agent[w]].agent = 1

\* C21: when /sales has answered 504 because its wait timed out, the fetch it
\* started has been cancelled: no query of a finished request is still
\* running or holding a connection, so timed-out requests do not pile up.
NoFetchOutlivesItsRequest == fetching = 0

\* C22: in sequential use, once a SQLAgent has been constructed every later
\* get_sql_agent returns that same instance and the constructor does not run
\* again; once create_sql_agent has succeeded, the session is kept and every
\* later question that reaches the agent tier runs it with no further
\* create_sql_agent call.
ConstructOnceReuse ==
    [][/\ _sql_agent # 0 =>
             /\ _sql_agent' = _sql_agent
             /\ ctor_calls' = ctor_calls
             /\ Len(heap') = Len(heap)
             /\ \A w \in Workers : agent'[w] \in {0, agent[w], _sql_agent}
       /\ \A i \in 1..Len(heap) :
             heap[i].agent # 0 =>
                 /\ heap'[i].agent = heap[i].agent
                 /\ create_calls' = create_calls
                 /\ \A w \in Workers :
                       (pc[w] = "lazy" /\ agent[w] = i /\ pc'[w] # pc[w])
                           => pc'[w] = "run"]_vars

\* the second question was answered by the agent of the first: one constructor
\* run and one create_sql_agent call for two questions
ConstructOnceReuseWitness ==
    \E w \in Workers :
        /\ pc[w] = "done"
        /\ requests = 2
        /\ ctor_calls = 1
        /\ create_calls = 1
        /\ result[w].kind = "agent"
        /\ "create_sql_agent" \notin Ops(w)

\* C23: _handle_simple_question executes at most one store query, that of the
\* first rule whose predicate matches; when that query fails the result is
\* None and no later matching rule is tried, and when no predicate matches no
\* query is executed.
AtMostOneStoreQuery ==
    \A w \in Workers :
        "rules" \in Ops(w) =>
            LET q == Lower(question[w])
            IN  /\ Len(queries[w]) <= 1
                /\ \A i \in 1..Len(queries[w]) : queries[w][i].sql = FirstRuleSql(q)
                /\ (\E i \in 1..Len(queries[w]) : queries[w][i].raised) =>
                      /\ queries[w] = Fetched(FirstRuleSql(q), FALSE)
                      /\ result[w] = NoResult /\ pc[w] = "lazy"
                /\ FirstRuleSql(q) = "none" =>
                      /\ queries[w] = <<>>
                      /\ result[w] = NoResult /\ pc[w] = "lazy"

\* a question matching the total-revenue and the average-revenue predicate
\* whose SUM query failed: one query, None, the AVG query not tried
AtMostOneStoreQueryWitness ==
    \E w \in Workers :
        /\ IsTotalRevenue(Lower(question[w])) /\ IsAverageRevenue(Lower(question[w]))
        /\ queries[w] = Fetched("SUM", FALSE)
        /\ pc[w] = "lazy"

====
